---- MODULE Spec2Model ----
(***************************************************************************)
(* A model of ServerKit::FileBufferedChannel                               *)
(* (src/ext/common/ServerKit/FileBufferedChannel.h).                       *)
(*                                                                         *)
(* Every C++ member function is an operator from a channel state (a record *)
(* of all fields) to the SET of states it can return in: the choices are   *)
(* the consumer's answer to a hand-off and the outcomes of undefined       *)
(* behaviour.  An action of the state machine is one entry point run to    *)
(* completion on the event loop thread: a public method, an eio            *)
(* completion, or the consumer's asynchronous consumed() acknowledgement.  *)
(*                                                                         *)
(* Bytes are numbered 1, 2, 3, ... in feed order, a buffer is the sequence *)
(* of its byte numbers, and the empty sequence is the EOS sentinel.        *)
(***************************************************************************)
EXTENDS Integers, Sequences, FiniteSets, Bags, TLC

\* ------------------------------------------------------------ bounds
MaxBytes == 3
MaxBufSize == 2
MaxThreshold == 3
MaxGeneration == 1
\* cancelled eio requests that have not completed yet
MaxOrphans == 2
\* mbuf_pool_data_size(&ctx->mbuf_pool): the largest chunk one eio_read fetches
MbufPoolDataSize == 2

EEXIST == 17
\* the errno a failing eio request reports (EIO), and the codes feedError() is called with
IOErrCodes == {5}
ErrCodes == {5, 28}

VARIABLES
    config,         \* FileBufferedChannelConfig: threshold, autoTruncateFile, autoStartMover, delayInFileModeSwitching
    mode,           \* Mode
    readerState,    \* ReaderState
    nbuffers,       \* number of queued buffers
    bytesBuffered,  \* sum of their sizes
    errcode,        \* stored error, 0 if none
    queue,          \* firstBuffer followed by moreBuffers
    inFileMode,     \* the InFileMode record; present = FALSE models the NULL shared_ptr
    chState,        \* Channel::state of the underlying channel
    generation,     \* Channel::generation
    file,           \* contents of the spill file of the current InFileMode
    orphans,        \* eio contexts that were cancelled and not yet freed (a bag)
    crashed,        \* the process dereferenced a NULL request
    assertFailed,   \* an assert() / P_ASSERT_EQ of the source did not hold
    log,            \* what data_callback received in this generation: byte numbers, 0 = EOS, -e = error e
    nfed,           \* bytes accepted by feed() since construction
    genStart,       \* the value of nfed when this generation began
    eosFed,         \* an EOS was accepted by feed() in this generation
    hist,           \* what the spill file's I/O did in this generation: "ioerr", "partial"
    consumer,       \* data_callback's manners: "sync" always consumes at once; "patient" may
                    \* also defer its acknowledgement; "any" may also say it wants no more;
                    \* (but "patient" and "any" differ: see ChannelFeed); "reentrant" may
                    \* defer or want no more, and its buffersFlushedCallback may call feed()
    events          \* what the last handler did on its way: a set of <<name, x, y, z>>

vars == <<config, mode, readerState, nbuffers, bytesBuffered, errcode, queue,
          inFileMode, chState, generation, file, orphans, crashed, assertFailed,
          log, nfed, genStart, eosFed, hist, consumer, events>>

\* The whole state as one record, as a handler finds it on entry, and the state a
\* handler returns made the next state.
Self ==
    [config |-> config, mode |-> mode, readerState |-> readerState,
     nbuffers |-> nbuffers, bytesBuffered |-> bytesBuffered, errcode |-> errcode,
     queue |-> queue, inFileMode |-> inFileMode, chState |-> chState,
     generation |-> generation, file |-> file, orphans |-> orphans,
     crashed |-> crashed, assertFailed |-> assertFailed, log |-> log,
     nfed |-> nfed, genStart |-> genStart, eosFed |-> eosFed, hist |-> hist, consumer |-> consumer, events |-> {}]

Becomes(t) ==
    /\ BagCardinality(t.orphans) <= MaxOrphans
    /\ consumer' = t.consumer
    /\ events' = t.events
    /\ config' = t.config
    /\ mode' = t.mode
    /\ readerState' = t.readerState
    /\ nbuffers' = t.nbuffers
    /\ bytesBuffered' = t.bytesBuffered
    /\ errcode' = t.errcode
    /\ queue' = t.queue
    /\ inFileMode' = t.inFileMode
    /\ chState' = t.chState
    /\ generation' = t.generation
    /\ file' = t.file
    /\ orphans' = t.orphans
    /\ crashed' = t.crashed
    /\ assertFailed' = t.assertFailed
    /\ log' = t.log
    /\ nfed' = t.nfed
    /\ genStart' = t.genStart
    /\ eosFed' = t.eosFed
    /\ hist' = t.hist

\* Run F on every state of S; a crashed process runs nothing further.
Bind(S, F(_)) == UNION {IF t.crashed THEN {t} ELSE F(t) : t \in S}

Min(a, b) == IF a < b THEN a ELSE b
Max(a, b) == IF a > b THEN a ELSE b

\* The bytes feed() accepted in this generation that data_callback has not received.
Undelivered(s) ==
    (s.nfed - s.genStart) - Cardinality({i \in DOMAIN s.log : s.log[i] > 0})

\* ------------------------------------------------------------ eio contexts
\* IOContext and its subclasses FileCreationContext, MoveContext, ReadContext.
\* kind: "open" (eio_open), "busy" (eio_busy), "write", "read"; stage "eio" = the
\* request is with eio, "loop" = its callback ran on a worker thread, copied
\* result/errcode out (eioFinished) and queued the continuation with runLater.
NullRequest ==
    [kind |-> "null", stage |-> "none", canceled |-> FALSE, buffer |-> <<>>,
     written |-> 0, size |-> 0, offset |-> 0, result |-> -1, errcode |-> -1]

IOContext(kind) == [NullRequest EXCEPT !.kind = kind, !.stage = "eio"]

\* IOContext::cancel(): eio_cancel the request and set `canceled`; the
\* canceller drops its pointer and the context is freed by its own completion.
\* What is kept of a context the channel let go of: what it was, and the flag.
\* The event tells whether eio still had the request ("eio") or its callback
\* had run on a worker thread and queued the continuation ("loop").
cancel(s, ctx) ==
    [s EXCEPT !.orphans = @ (+) SetToBag({[kind |-> ctx.kind, canceled |-> TRUE]}),
              !.events = @ \cup {<<"cancel", ctx.kind, ctx.stage>>}]

\* IOContext::isCanceled() that never sees the flag.
isCanceled_Never(ctx) == FALSE

\* IOContext::isCanceled(), called after eioFinished() has set req = NULL.
isCanceled(ctx) == ctx.canceled

\* A request pointer of InFileMode is assigned a new context: if it still
\* points at another context, that request is lost to the channel.
Register(s, slot) ==
    IF slot.kind = "null" THEN s
    ELSE [s EXCEPT !.events = @ \cup {<<"requestOverwritten", slot.kind>>}]

\* InFileMode() starting with written = -1.
NewInFileMode_WrittenMinusOne ==
    [present |-> TRUE, fd |-> -1, readRequest |-> NullRequest,
     writerState |-> "WS_INACTIVE", writerRequest |-> NullRequest,
     readOffset |-> 0, written |-> -1]

\* InFileMode(): the constructor's values.  NoInFileMode is the NULL pointer.
NewInFileMode ==
    [present |-> TRUE, fd |-> -1, readRequest |-> NullRequest,
     writerState |-> "WS_INACTIVE", writerRequest |-> NullRequest,
     readOffset |-> 0, written |-> 0]

NoInFileMode == [NewInFileMode EXCEPT !.present = FALSE]

IsError(m) == m \in {"ERROR", "ERROR_WAITING"}

\* ------------------------------------------------------------ spill file
\* pwrite(fd, data, |data|, offset) and pread(fd, n, offset) on a regular file:
\* a write past the end leaves a hole, a read stops at the end.  The zero
\* bytes of a hole are written 100 here: they are none of the fed bytes.
WriteAt(f, offset, data) ==
    [i \in 1..Max(Len(f), offset + Len(data)) |->
        IF i > offset /\ i <= offset + Len(data) THEN data[i - offset]
        ELSE IF i <= Len(f) THEN f[i] ELSE 100]

ReadAt(f, offset, n) ==
    [i \in 1..Max(0, Min(n, Len(f) - offset)) |-> f[offset + i]]

\* ------------------------------------------------------------ buffer queue
\* The sizes of the queued buffers added up, and the sizes of the queue's prefixes.
RECURSIVE SizeOfBuffers(_)
SizeOfBuffers(q) == IF q = <<>> THEN 0 ELSE Len(Head(q)) + SizeOfBuffers(Tail(q))

PrefixSizes(q) == {SizeOfBuffers(SubSeq(q, 1, k)) : k \in 0..Len(q)}

\* The first queued buffer that begins `target` bytes into the queue, if any.
BufferStartingAt(q, target) ==
    LET ks == {k \in 0..(Len(q) - 1) : SizeOfBuffers(SubSeq(q, 1, k)) = target}
    IN  IF ks = {} THEN [buffer |-> <<>>, found |-> FALSE]
        ELSE [buffer |-> q[(CHOOSE k \in ks : \A j \in ks : k <= j) + 1], found |-> TRUE]

clearBuffers(s) == [s EXCEPT !.nbuffers = 0, !.bytesBuffered = 0, !.queue = <<>>]

\* pushBuffer() without `bytesBuffered += buffer.size()`.
pushBuffer_NotCounting(s, buffer) ==
    [s EXCEPT !.queue = Append(@, buffer),
              !.nbuffers = @ + 1]

pushBuffer(s, buffer) ==
    [s EXCEPT !.queue = Append(@, buffer),
              !.nbuffers = @ + 1,
              !.bytesBuffered = @ + Len(buffer)]

hasBuffers(s) == s.nbuffers > 0
peekBuffer(s) == IF s.queue = <<>> THEN <<>> ELSE Head(s.queue)
peekLastBuffer(s) == IF s.queue = <<>> THEN <<>> ELSE s.queue[Len(s.queue)]

\* passedThreshold() with > in place of >=.
passedThreshold_Strict(s) == s.bytesBuffered > s.config.threshold

passedThreshold(s) == s.bytesBuffered >= s.config.threshold

verifyInvariants(s) ==
    LET ok == /\ IsError(s.mode) => s.readerState = "RS_TERMINATED" /\ ~s.inFileMode.present
              /\ s.readerState = "RS_WAITING_FOR_CHANNEL_IDLE" => ~IsError(s.mode)
              /\ s.readerState = "RS_READING_FROM_FILE" =>
                    /\ s.mode = "IN_FILE_MODE"
                    /\ s.inFileMode.readRequest.kind # "null"
                    /\ s.inFileMode.written > 0
              /\ (s.errcode = 0) = ~IsError(s.mode)
              /\ s.inFileMode.present = (s.mode = "IN_FILE_MODE")
    IN  [s EXCEPT !.assertFailed = @ \/ ~ok,
                  !.events = @ \cup {<<"verifyInvariants", ok>>}]

\* ------------------------------------------------------------ cancellation
\* Calling cancel() through a NULL request pointer is undefined behaviour: the
\* process dies on the access, or the call goes through without effect.
NullDereference(s) == {[s EXCEPT !.crashed = TRUE], s}

\* cancelReader() that cancels nothing.
cancelReader_Nothing(s) == {s}

cancelReader(s) ==
    IF s.readerState = "RS_READING_FROM_FILE"
    THEN IF s.inFileMode.readRequest.kind = "null"
         THEN NullDereference(s)
         ELSE {[cancel(s, s.inFileMode.readRequest) EXCEPT !.inFileMode.readRequest = NullRequest]}
    ELSE {s}

cancelWriter(s) ==
    LET s0 == [s EXCEPT !.assertFailed = @ \/ s.mode # "IN_FILE_MODE"]
    IN  CASE s.inFileMode.writerState = "WS_INACTIVE" -> {s0}
          [] s.inFileMode.writerState \in {"WS_CREATING_FILE", "WS_MOVING"} ->
                Bind(IF s.inFileMode.writerRequest.kind = "null"
                     THEN NullDereference(s0)
                     ELSE {cancel(s0, s.inFileMode.writerRequest)},
                     LAMBDA t : {[t EXCEPT !.inFileMode.writerRequest = NullRequest,
                                           !.inFileMode.writerState = "WS_INACTIVE"]})
          [] OTHER -> {s0}

\* The channel keeping its InFileMode record where it should let go of it.
resetInFileMode_Nothing(s) == s

\* inFileMode.reset(): the channel lets go of the record and of its spill file.
resetInFileMode(s) == [s EXCEPT !.inFileMode = NoInFileMode, !.file = <<>>]

\* ------------------------------------------------------------ deinitialize
\* Channel::deinitialize() ends the generation.
ChannelDeinitialize(s) ==
    [s EXCEPT !.generation = @ + 1, !.chState = "UNINITIALIZED"]

\* deinitialize() without its cancelWriter().
deinitialize_WithoutCancelWriter(s) ==
    Bind(cancelReader(s),
         LAMBDA t : {ChannelDeinitialize(resetInFileMode(
                        [clearBuffers(t) EXCEPT !.mode = "IN_MEMORY_MODE",
                                                !.readerState = "RS_INACTIVE",
                                                !.errcode = 0]))})

deinitialize(s) ==
    Bind(Bind(cancelReader(s),
              LAMBDA t : IF t.mode = "IN_FILE_MODE" THEN cancelWriter(t) ELSE {t}),
         LAMBDA t : {ChannelDeinitialize(resetInFileMode(
                        [clearBuffers(t) EXCEPT !.mode = "IN_MEMORY_MODE",
                                                !.readerState = "RS_INACTIVE",
                                                !.errcode = 0]))})

\* The requests registered with the channel: inFileMode->readRequest and
\* inFileMode->writerRequest where not NULL.
OutstandingRequests(s) ==
    (IF s.inFileMode.readRequest.kind # "null" THEN 1 ELSE 0)
    + (IF s.inFileMode.writerRequest.kind # "null" THEN 1 ELSE 0)

\* A call of deinitialize() by `caller`: one of the three callbacks, or "user"
\* for a call from outside any handler.  A new generation begins: nothing fed,
\* nothing delivered.  The event keeps what the call found and what it left.
CallDeinitialize(s, caller) ==
    Bind(deinitialize(s),
         LAMBDA t : {[t EXCEPT !.log = <<>>, !.genStart = t.nfed, !.eosFed = FALSE, !.hist = {},
                               !.events = @ \cup {<<"deinitialize", caller, OutstandingRequests(s),
                                                    BagCardinality(t.orphans) - BagCardinality(s.orphans),
                                                    Cardinality(t.events), t.assertFailed>>}]})

\* ------------------------------------------------------------ what a caller can ask
\* The underlying channel's accessors (see "underlying channel" below).
acceptingInput(s) == s.chState = "IDLE"
isIdle(s) == s.chState = "IDLE"
mayAcceptInputLater(s) == s.chState = "CALLING"
ChannelEnded(s) == s.chState = "EOF_REACHED"

\* ended() without the look at the last queued buffer.
ended_IgnoringQueuedEOS(s) == IsError(s.mode) \/ ChannelEnded(s)

ended(s) ==
    \/ hasBuffers(s) /\ peekLastBuffer(s) = <<>>
    \/ IsError(s.mode)
    \/ ChannelEnded(s)

\* ------------------------------------------------------------ callbacks
RECURSIVE feedWithoutRefGuard(_, _)

\* feed(buffer) called from inside buffersFlushedCallback, with a buffer of n
\* fresh bytes (n = 0 is the EOS).  The event keeps what the callback found.
ReentrantFeed(s) ==
    UNION {LET accepted == ~ended(s)
               buffer == [i \in 1..n |-> s.nfed + i]
           IN  feedWithoutRefGuard(
                   [s EXCEPT !.nfed = IF accepted THEN @ + n ELSE @,
                             !.eosFed = @ \/ (accepted /\ n = 0),
                             !.events = @ \cup {<<"reentrantFeed", s.mode, s.readerState, n>>}],
                   buffer)
           : n \in {m \in 0..MaxBufSize : s.nfed + m <= MaxBytes}}

\* A callback of the user returns, or calls deinitialize() and returns (consumer
\* "any"; a generation ends at most MaxGeneration times).
UserCallback(s, name) ==
    {s} \cup (IF s.consumer = "any" /\ s.generation < MaxGeneration
              THEN CallDeinitialize(s, name) ELSE {})

\* buffersFlushedCallback of the consumer "reentrant" may also call feed()
\* before it returns.
callBuffersFlushedCallback(s) ==
    LET s1 == [s EXCEPT !.events = @ \cup {<<"buffersFlushedCallback", s.mode, s.generation>>}]
    IN  UserCallback(s1, "buffersFlushedCallback")
            \cup (IF s.consumer = "reentrant" THEN ReentrantFeed(s1) ELSE {})

callDataFlushedCallback(s) ==
    UserCallback([s EXCEPT !.events = @ \cup {<<"dataFlushedCallback", s.readerState, s.mode, s.nbuffers,
                                                 s.bytesBuffered, s.inFileMode.written,
                                                 Undelivered(s), s.generation>>}],
                 "dataFlushedCallback")

\* nbuffers is an unsigned 27-bit field; firstBuffer of an empty queue is the empty mbuf.
popBuffer(s) ==
    LET s1 == [s EXCEPT !.bytesBuffered = @ - Len(peekBuffer(s)),
                        !.nbuffers = (@ - 1) % (2^27),
                        !.queue = IF @ = <<>> THEN <<>> ELSE Tail(@),
                        !.assertFailed = @ \/ s.bytesBuffered < Len(peekBuffer(s))]
    IN  IF Len(s.queue) <= 1
        THEN callBuffersFlushedCallback([s1 EXCEPT !.assertFailed = @ \/ s1.nbuffers # 0])
        ELSE {s1}

\* ------------------------------------------------------------ underlying channel
\* ServerKit::Channel, a single-slot channel.  IDLE: accepts a feed.  CALLING:
\* data_callback holds a buffer it has not yet acknowledged.  EOF_REACHED: the
\* channel has ended (an EOS or an error was handed over, or the consumer wants
\* no more).  UNINITIALIZED: between deinitialize() and reinitialize().

RECURSIVE onChannelConsumed(_)
RECURSIVE readNextWithoutRefGuard(_)

\* Channel::feedWithoutRefGuard(buffer): data_callback receives the buffer and
\* answers at once (consumed everything; or consumed and wants no more), or
\* returns and acknowledges later through consumed().  An empty buffer is the
\* EOS, which ends the channel.  Every acknowledgement runs consumedCallback.
\* data_callback may also call deinitialize(): the channel then returns to its
\* caller without touching its state and without running consumedCallback.
DataCallbackDeinitializes(s) ==
    IF s.consumer = "any" /\ s.generation < MaxGeneration
    THEN CallDeinitialize(s, "dataCallback") ELSE {}

ChannelFeed(s, buffer) ==
    IF buffer = <<>>
    THEN LET s1 == [s EXCEPT !.log = Append(@, 0),
                             !.events = @ \cup {<<"channelFeed", s.chState, 0>>}]
         IN  onChannelConsumed([s1 EXCEPT !.chState = "EOF_REACHED"])
             \cup DataCallbackDeinitializes(s1)
    ELSE LET s1 == [s EXCEPT !.log = @ \o buffer,
                             !.events = @ \cup {<<"channelFeed", s.chState, Len(buffer)>>}]
         IN  onChannelConsumed([s1 EXCEPT !.chState = "IDLE"])
             \cup (IF s.consumer = "sync" THEN {} ELSE {[s1 EXCEPT !.chState = "CALLING"]})
             \cup (IF s.consumer \notin {"any", "reentrant"} THEN {}
                   ELSE onChannelConsumed([s1 EXCEPT !.chState = "EOF_REACHED"]))
             \cup DataCallbackDeinitializes(s1)

\* Channel::feedError(errcode): data_callback receives the error; the channel ends.
ChannelFeedError(s, e) ==
    LET s1 == [s EXCEPT !.log = Append(@, -e)]
    IN  onChannelConsumed([s1 EXCEPT !.chState = "EOF_REACHED"])
        \cup DataCallbackDeinitializes(s1)

\* ------------------------------------------------------------ errors

\* setError()'s tail feeding the error whether or not the channel accepts input.
setErrorFeed_Always(s, e) ==
    LET s1 == resetInFileMode([s EXCEPT !.readerState = "RS_TERMINATED", !.errcode = e])
    IN  ChannelFeedError([s1 EXCEPT !.mode = IF acceptingInput(s1) THEN "ERROR" ELSE "ERROR_WAITING"], e)

setErrorFeed(s, e) ==
    LET s1 == resetInFileMode([s EXCEPT !.readerState = "RS_TERMINATED", !.errcode = e])
    IN  IF acceptingInput(s1)
        THEN ChannelFeedError([s1 EXCEPT !.mode = "ERROR"], e)
        ELSE {[s1 EXCEPT !.mode = "ERROR_WAITING"]}

\* setError() without its `if (mode >= ERROR) return`.
setError_NotIdempotent(s, e) ==
    Bind(Bind(cancelReader(s),
              LAMBDA t : IF t.mode = "IN_FILE_MODE" THEN cancelWriter(t) ELSE {t}),
         LAMBDA t : setErrorFeed(t, e))

setError(s, e) ==
    IF IsError(s.mode) THEN {s}
    ELSE Bind(Bind(cancelReader(s),
                   LAMBDA t : IF t.mode = "IN_FILE_MODE" THEN cancelWriter(t) ELSE {t}),
              LAMBDA t : setErrorFeed(t, e))

\* feedErrorWhenChannelIdleOrEnded() that never feeds the stored error.
feedErrorWhenChannelIdleOrEnded_Never(s) == {[s EXCEPT !.assertFailed = @ \/ s.errcode = 0]}

feedErrorWhenChannelIdleOrEnded(s) ==
    LET s1 == [s EXCEPT !.assertFailed = @ \/ s.errcode = 0]
    IN  IF isIdle(s1) THEN ChannelFeedError(s1, s1.errcode) ELSE {s1}

\* ------------------------------------------------------------ reader
\* terminateReaderBecauseOfEOF() without `readerState = RS_TERMINATED`.
terminateReaderBecauseOfEOF_KeepingState(s) ==
    callDataFlushedCallback(verifyInvariants(s))

terminateReaderBecauseOfEOF(s) ==
    callDataFlushedCallback(verifyInvariants([s EXCEPT !.readerState = "RS_TERMINATED"]))

readNextWhenChannelIdle(s) ==
    verifyInvariants([s EXCEPT !.readerState = "RS_WAITING_FOR_CHANNEL_IDLE"])

channelHasBecomeIdle(s) == readNextWithoutRefGuard(verifyInvariants(s))

\* channelEndedWhileWaitingForItToBecomeIdle() that leaves the reader waiting.
channelEndedWhileWaitingForItToBecomeIdle_Nothing(s) == {s}

channelEndedWhileWaitingForItToBecomeIdle(s) == terminateReaderBecauseOfEOF(s)

onChannelConsumed(s) ==
    IF s.readerState = "RS_WAITING_FOR_CHANNEL_IDLE"
    THEN IF acceptingInput(s)
         THEN channelHasBecomeIdle(s)
         ELSE channelEndedWhileWaitingForItToBecomeIdle(
                  [s EXCEPT !.assertFailed = @ \/ ~ChannelEnded(s)])
    ELSE IF s.mode = "ERROR_WAITING"
         THEN feedErrorWhenChannelIdleOrEnded(s)
         ELSE {s}

\* readNextChunkFromFile() reading at offset 0 instead of readOffset.
readNextChunkFromFile_FromStart(s) ==
    LET size == Min(s.inFileMode.written, MbufPoolDataSize)
        readContext == [IOContext("read") EXCEPT !.size = size, !.offset = 0]
        s1 == verifyInvariants([s EXCEPT !.assertFailed = @ \/ ~(s.inFileMode.written > 0)])
    IN  verifyInvariants([s1 EXCEPT !.readerState = "RS_READING_FROM_FILE",
                                    !.inFileMode.readRequest = readContext])

readNextChunkFromFile(s) ==
    LET size == Min(s.inFileMode.written, MbufPoolDataSize)
        readContext == [IOContext("read") EXCEPT !.size = size, !.offset = s.inFileMode.readOffset]
        s1 == verifyInvariants([s EXCEPT !.assertFailed = @ \/ ~(s.inFileMode.written > 0)])
    IN  verifyInvariants([Register(s1, s.inFileMode.readRequest)
                             EXCEPT !.readerState = "RS_READING_FROM_FILE",
                                    !.inFileMode.readRequest = readContext])

\* Returns (mbuf, found).
RECURSIVE findInMoreBuffers(_, _, _, _)
findInMoreBuffers(q, i, offset, target) ==
    IF i > Len(q) THEN [buffer |-> <<>>, found |-> FALSE]
    ELSE IF offset = target \/ q[i] = <<>> THEN [buffer |-> q[i], found |-> TRUE]
    ELSE findInMoreBuffers(q, i + 1, offset + Len(q[i]), target)

\* findBufferForReadProcessing() without `offset += firstBuffer.size()`.
findBufferForReadProcessing_NoFirstSize(s) ==
    IF s.nbuffers = 0 THEN [buffer |-> <<>>, found |-> FALSE]
    ELSE IF 0 = -s.inFileMode.written THEN [buffer |-> peekBuffer(s), found |-> TRUE]
    ELSE findInMoreBuffers(s.queue, 2, 0, -s.inFileMode.written)

findBufferForReadProcessing(s) ==
    IF s.nbuffers = 0 THEN [buffer |-> <<>>, found |-> FALSE]
    ELSE IF 0 = -s.inFileMode.written THEN [buffer |-> peekBuffer(s), found |-> TRUE]
    ELSE findInMoreBuffers(s.queue, 2, Len(peekBuffer(s)), -s.inFileMode.written)

switchToInMemoryMode(s) ==
    LET s0 == [s EXCEPT !.assertFailed = @ \/ s.mode # "IN_FILE_MODE" \/ ~(s.inFileMode.written <= 0),
                        !.events = @ \cup {<<"switchToInMemoryMode", s.inFileMode.written,
                                             s.nbuffers, s.bytesBuffered>>}]
    IN  Bind(cancelWriter(s0),
             LAMBDA t : {resetInFileMode([clearBuffers(t) EXCEPT !.mode = "IN_MEMORY_MODE"])})

\* afterFeeding() without the look at the generation.
afterFeeding_NoGenerationCheck(s, gen) ==
    IF IsError(s.mode) THEN {s}
    ELSE LET s1 == verifyInvariants([s EXCEPT !.assertFailed = @ \/ s.readerState # "RS_FEEDING"])
         IN  IF acceptingInput(s1) THEN readNextWithoutRefGuard(s1)
             ELSE IF mayAcceptInputLater(s1) THEN {readNextWhenChannelIdle(s1)}
             ELSE terminateReaderBecauseOfEOF(s1)

\* What follows a hand-off of a data buffer: `generation` is the value sampled
\* before the hand-off.
afterFeeding(s, gen) ==
    IF gen # s.generation \/ IsError(s.mode) THEN {s}
    ELSE LET s1 == verifyInvariants([s EXCEPT !.assertFailed = @ \/ s.readerState # "RS_FEEDING"])
         IN  IF acceptingInput(s1) THEN readNextWithoutRefGuard(s1)
             ELSE IF mayAcceptInputLater(s1) THEN {readNextWhenChannelIdle(s1)}
             ELSE terminateReaderBecauseOfEOF(s1)

\* The EOF branch switching back to in-memory mode after the hand-off.
afterFeedingEOF_Truncating(s, gen) ==
    IF gen # s.generation \/ IsError(s.mode) THEN {s}
    ELSE Bind(IF s.mode = "IN_FILE_MODE" /\ s.config.autoTruncateFile
              THEN switchToInMemoryMode(s) ELSE {s},
              LAMBDA t : terminateReaderBecauseOfEOF(
                  verifyInvariants([t EXCEPT !.assertFailed = @ \/ t.readerState # "RS_FEEDING_EOF"])))

afterFeedingEOF(s, gen) ==
    IF gen # s.generation \/ IsError(s.mode) THEN {s}
    ELSE terminateReaderBecauseOfEOF(
             verifyInvariants([s EXCEPT !.assertFailed = @ \/ s.readerState # "RS_FEEDING_EOF"]))

\* `readerState = RS_FEEDING` after popBuffer() has returned: the event tells
\* when this assignment takes the reader out of RS_TERMINATED.
ReaderResumes(s) ==
    IF s.readerState # "RS_TERMINATED" THEN s
    ELSE [s EXCEPT !.events = @ \cup {<<"readerLeftTerminated", s.chState>>}]

readNextInMemory(s) ==
    IF ~hasBuffers(s)
    THEN callDataFlushedCallback(verifyInvariants([s EXCEPT !.readerState = "RS_INACTIVE"]))
    ELSE IF peekBuffer(s) = <<>>
    THEN Bind(ChannelFeed(verifyInvariants([s EXCEPT !.readerState = "RS_FEEDING_EOF"]), peekBuffer(s)),
              LAMBDA t : afterFeedingEOF(t, s.generation))
    ELSE Bind(popBuffer(s),
              LAMBDA t : IF s.generation # t.generation \/ IsError(t.mode) THEN {t}
                         ELSE Bind(ChannelFeed([ReaderResumes(t) EXCEPT !.readerState = "RS_FEEDING"],
                                               peekBuffer(s)),
                                   LAMBDA u : afterFeeding(u, s.generation)))

\* The IN_FILE branch truncating whatever config->autoTruncateFile says.
readNextInFile_AlwaysTruncates(s) ==
    IF s.inFileMode.written > 0 THEN {readNextChunkFromFile(s)}
    ELSE LET result == findBufferForReadProcessing(s) IN
         IF ~result.found
         THEN Bind(switchToInMemoryMode([s EXCEPT !.readerState = "RS_INACTIVE"]),
                   LAMBDA t : callDataFlushedCallback(verifyInvariants(t)))
         ELSE IF result.buffer = <<>>
         THEN Bind(ChannelFeed(verifyInvariants([s EXCEPT !.readerState = "RS_FEEDING_EOF"]), result.buffer),
                   LAMBDA t : afterFeedingEOF(t, s.generation))
         ELSE Bind(ChannelFeed([s EXCEPT !.inFileMode.readOffset = @ + Len(result.buffer),
                                         !.inFileMode.written = @ - Len(result.buffer),
                                         !.readerState = "RS_FEEDING"], result.buffer),
                   LAMBDA t : afterFeeding(t, s.generation))

\* readNextInFile() that removes the buffer it serves from memory.
readNextInFile_Popping(s) ==
    IF s.inFileMode.written > 0 THEN {readNextChunkFromFile(s)}
    ELSE LET result == findBufferForReadProcessing(s) IN
         IF ~result.found
         THEN Bind(IF s.config.autoTruncateFile
                   THEN switchToInMemoryMode([s EXCEPT !.readerState = "RS_INACTIVE"])
                   ELSE {[s EXCEPT !.readerState = "RS_INACTIVE"]},
                   LAMBDA t : callDataFlushedCallback(verifyInvariants(t)))
         ELSE IF result.buffer = <<>>
         THEN Bind(ChannelFeed(verifyInvariants([s EXCEPT !.readerState = "RS_FEEDING_EOF"]), result.buffer),
                   LAMBDA t : afterFeedingEOF(t, s.generation))
         ELSE Bind(ChannelFeed([s EXCEPT !.inFileMode.readOffset = @ + Len(result.buffer),
                                         !.inFileMode.written = @ - Len(result.buffer),
                                         !.queue = Tail(@),
                                         !.nbuffers = @ - 1,
                                         !.bytesBuffered = @ - Len(Head(s.queue)),
                                         !.readerState = "RS_FEEDING"], result.buffer),
                   LAMBDA t : afterFeeding(t, s.generation))

readNextInFile(s) ==
    IF s.inFileMode.written > 0 THEN {readNextChunkFromFile(s)}
    ELSE LET result == findBufferForReadProcessing(s)
             s0 == [s EXCEPT !.events = @ \cup {<<"findBufferForReadProcessing", s.inFileMode.written,
                                                   -s.inFileMode.written \in PrefixSizes(s.queue),
                                                   result = BufferStartingAt(s.queue, -s.inFileMode.written)>>}]
         IN
         IF ~result.found
         THEN Bind(IF s.config.autoTruncateFile
                   THEN switchToInMemoryMode([s0 EXCEPT !.readerState = "RS_INACTIVE"])
                   ELSE {[s0 EXCEPT !.readerState = "RS_INACTIVE"]},
                   LAMBDA t : callDataFlushedCallback(verifyInvariants(t)))
         ELSE IF result.buffer = <<>>
         THEN Bind(ChannelFeed(verifyInvariants([s0 EXCEPT !.readerState = "RS_FEEDING_EOF"]), result.buffer),
                   LAMBDA t : afterFeedingEOF(t, s.generation))
         ELSE Bind(ChannelFeed([s0 EXCEPT !.inFileMode.readOffset = @ + Len(result.buffer),
                                          !.inFileMode.written = @ - Len(result.buffer),
                                          !.readerState = "RS_FEEDING"], result.buffer),
                   LAMBDA t : afterFeeding(t, s.generation))

readNextWithoutRefGuard(s) ==
    LET s0 == [s EXCEPT !.assertFailed = @ \/ s.chState # "IDLE"]
    IN  CASE s.mode = "IN_MEMORY_MODE" -> readNextInMemory(s0)
          [] s.mode = "IN_FILE_MODE" -> readNextInFile(s0)
          [] OTHER -> {[s0 EXCEPT !.assertFailed = TRUE]}

readNext(s) == readNextWithoutRefGuard(s)

\* ------------------------------------------------------------ writer
\* createBufferFile() without `inFileMode->writerRequest = fcContext`.
createBufferFile_NotRegistering(s) ==
    [s EXCEPT !.assertFailed = @ \/ s.mode # "IN_FILE_MODE"
                                   \/ s.inFileMode.writerState # "WS_INACTIVE"
                                   \/ s.inFileMode.fd # -1,
              !.inFileMode.writerState = "WS_CREATING_FILE"]

createBufferFile(s) ==
    LET s0 == [s EXCEPT !.assertFailed = @ \/ s.mode # "IN_FILE_MODE"
                                           \/ s.inFileMode.writerState # "WS_INACTIVE"
                                           \/ s.inFileMode.fd # -1]
        fcContext == IOContext(IF s.config.delayInFileModeSwitching = 0 THEN "open" ELSE "busy")
    IN  [Register(s0, s.inFileMode.writerRequest)
            EXCEPT !.inFileMode.writerState = "WS_CREATING_FILE",
                   !.inFileMode.writerRequest = fcContext]

switchToInFileMode(s) ==
    LET s1 == createBufferFile([s EXCEPT !.assertFailed = @ \/ s.mode # "IN_MEMORY_MODE" \/ s.inFileMode.present,
                                         !.mode = "IN_FILE_MODE",
                                         !.inFileMode = NewInFileMode,
                                         !.file = <<>>])
        started == /\ s1.inFileMode.present
                   /\ s1.inFileMode.writerState = "WS_CREATING_FILE"
                   /\ s1.inFileMode.writerRequest.kind \in {"open", "busy"}
    IN  [s1 EXCEPT !.events = @ \cup {<<"switchToInFileMode", s.bytesBuffered,
                                        IF started THEN 1 ELSE 0, 0>>}]

\* The continuation of the eio_busy delay: the same context now carries the eio_open.
bufferFileDoneDelaying(s, fcContext) ==
    {[s EXCEPT !.inFileMode.writerRequest = IOContext("open")]}

moveNextBufferToFile(s) ==
    LET s0 == verifyInvariants([s EXCEPT !.assertFailed = @ \/ s.mode # "IN_FILE_MODE" \/ s.inFileMode.fd = -1])
        moveContext == [IOContext("write") EXCEPT
                            !.buffer = peekBuffer(s),
                            !.written = 0,
                            !.size = Len(peekBuffer(s)),
                            !.offset = s.inFileMode.readOffset + s.inFileMode.written]
    IN  IF s.nbuffers = 0 THEN [s0 EXCEPT !.inFileMode.writerState = "WS_INACTIVE"]
        ELSE IF peekBuffer(s) = <<>>
        THEN [s0 EXCEPT !.inFileMode.writerState = "WS_TERMINATED",
                        !.events = @ \cup {<<"writerFoundEOS", s.inFileMode.written>>}]
        ELSE verifyInvariants([Register(s0, s.inFileMode.writerRequest)
                                  EXCEPT !.inFileMode.writerState = "WS_MOVING",
                                         !.inFileMode.writerRequest = moveContext])

\* bufferFileCreated() without the retry on EEXIST.
bufferFileCreated_NoRetry(s, fcContext) ==
    LET s0 == verifyInvariants([s EXCEPT !.assertFailed = @ \/ s.inFileMode.writerState # "WS_CREATING_FILE"])
        s1 == [s0 EXCEPT !.inFileMode.writerRequest = NullRequest]
    IN  IF fcContext.result # -1
        THEN {moveNextBufferToFile([s1 EXCEPT !.inFileMode.fd = fcContext.result])}
        ELSE setError([s1 EXCEPT !.events = @ \cup {<<"openFailed", fcContext.errcode,
                                                      BagCardinality(s.orphans)>>,
                                                    <<"fileExists", fcContext.errcode>>}],
                      fcContext.errcode)

bufferFileCreated(s, fcContext) ==
    LET s0 == verifyInvariants([s EXCEPT !.assertFailed = @ \/ s.inFileMode.writerState # "WS_CREATING_FILE"])
        s1 == [s0 EXCEPT !.inFileMode.writerRequest = NullRequest]
    IN  IF fcContext.result # -1
        THEN {moveNextBufferToFile([s1 EXCEPT !.inFileMode.fd = fcContext.result])}
        ELSE IF fcContext.errcode = EEXIST
        THEN {verifyInvariants(createBufferFile(
                [s1 EXCEPT !.inFileMode.writerState = "WS_INACTIVE",
                           !.events = @ \cup {<<"fileExists", fcContext.errcode>>}]))}
        ELSE setError([s1 EXCEPT !.events = @ \cup {<<"openFailed", fcContext.errcode,
                                                      BagCardinality(s.orphans)>>}],
                      fcContext.errcode)

\* moveContext arrives with the result of the eio_write that just finished.
bufferWrittenToFile(s, moveContext) ==
    LET s0 == verifyInvariants([s EXCEPT !.assertFailed = @ \/ s.mode # "IN_FILE_MODE"
                                            \/ s.inFileMode.writerState # "WS_MOVING"
                                            \/ peekBuffer(s) = <<>>,
                                         !.events = @ \cup {<<"bufferWrittenToFile", s.queue # <<>>,
                                                              peekBuffer(s) # <<>>,
                                                              peekBuffer(s) = moveContext.buffer>>}])
        written == moveContext.written + moveContext.result
        \* where the first write of this buffer was issued (moveNextBufferToFile);
        \* readOffset + written has not moved since
        bufferOffset == s.inFileMode.readOffset + s.inFileMode.written
        \* destroyMoveContext() of a context that a callback's deinitialize() cancelled
        canceledMoveContext == [kind |-> "write", canceled |-> TRUE]
    IN  IF moveContext.result # -1
        THEN IF written = Len(moveContext.buffer)
             THEN Bind(popBuffer([s0 EXCEPT !.assertFailed = @ \/ Len(peekBuffer(s)) # Len(moveContext.buffer),
                                            !.events = @ \cup {<<"moveComplete", moveContext.buffer,
                                                                 ReadAt(s.file, bufferOffset, Len(moveContext.buffer))>>},
                                            !.inFileMode.written = @ + Len(moveContext.buffer)]),
                       LAMBDA t : IF s.generation # t.generation \/ IsError(t.mode)
                                  THEN {[t EXCEPT !.orphans = @ (-) SetToBag({canceledMoveContext})]}
                                  ELSE {moveNextBufferToFile([t EXCEPT !.inFileMode.writerRequest = NullRequest])})
             ELSE {verifyInvariants(
                      [s0 EXCEPT !.assertFailed = @ \/ written > Len(moveContext.buffer),
                                 !.events = @ \cup {<<"writeRemainder", s.inFileMode.readOffset + s.inFileMode.written,
                                                      bufferOffset, written>>},
                                 !.inFileMode.writerRequest =
                                      [moveContext EXCEPT !.stage = "eio",
                                                          !.written = written,
                                                          !.size = Len(moveContext.buffer) - written,
                                                          !.offset = s.inFileMode.readOffset + s.inFileMode.written,
                                                          !.result = -1, !.errcode = -1]])}
        ELSE setError([s0 EXCEPT !.inFileMode.writerRequest = NullRequest,
                                 !.inFileMode.writerState = "WS_TERMINATED",
                                 !.events = @ \cup {<<"writeFailed", moveContext.errcode, s.readerState,
                                                      s.chState, s.inFileMode.readRequest.kind # "null",
                                                      BagCardinality(s.orphans)>>}],
                      moveContext.errcode)

\* nextChunkDoneReading() without `inFileMode->written -= buffer.size()`.
nextChunkDoneReading_NotCounting(s, readContext) ==
    LET s0 == verifyInvariants([s EXCEPT !.assertFailed = @ \/ s.readerState # "RS_READING_FROM_FILE"])
        s1 == [s0 EXCEPT !.inFileMode.readRequest = NullRequest]
        buffer == readContext.buffer
    IN  IF readContext.result # -1
        THEN Bind(ChannelFeed([s1 EXCEPT !.assertFailed = @ \/ readContext.result > s.inFileMode.written,
                                         !.events = @ \cup {<<"feedFromFile", Len(buffer), 0, 0>>},
                                         !.inFileMode.readOffset = @ + Len(buffer),
                                         !.readerState = "RS_FEEDING"], buffer),
                  LAMBDA t : IF s.generation # t.generation \/ IsError(t.mode) THEN {t}
                             ELSE LET t1 == verifyInvariants([t EXCEPT !.assertFailed = @ \/ t.readerState # "RS_FEEDING"])
                                  IN  IF acceptingInput(t1) THEN readNext([t1 EXCEPT !.readerState = "RS_INACTIVE"])
                                      ELSE IF mayAcceptInputLater(t1) THEN {readNextWhenChannelIdle(t1)}
                                      ELSE terminateReaderBecauseOfEOF(t1))
        ELSE setError([s1 EXCEPT !.events = @ \cup {<<"readFailed", readContext.errcode,
                                                      s.inFileMode.writerRequest.kind # "null",
                                                      BagCardinality(s.orphans)>>}],
                      readContext.errcode)

\* readContext arrives with the result of the eio_read and the bytes it fetched.
nextChunkDoneReading(s, readContext) ==
    LET s0 == verifyInvariants([s EXCEPT !.assertFailed = @ \/ s.readerState # "RS_READING_FROM_FILE"])
        s1 == [s0 EXCEPT !.inFileMode.readRequest = NullRequest]
        buffer == readContext.buffer
    IN  IF readContext.result # -1
        THEN Bind(ChannelFeed([s1 EXCEPT !.assertFailed = @ \/ readContext.result > s.inFileMode.written,
                                         !.events = @ \cup {<<"feedFromFile", Len(buffer), 0, 0>>},
                                         !.inFileMode.readOffset = @ + Len(buffer),
                                         !.inFileMode.written = @ - Len(buffer),
                                         !.readerState = "RS_FEEDING"], buffer),
                  LAMBDA t : IF s.generation # t.generation \/ IsError(t.mode) THEN {t}
                             ELSE LET t1 == verifyInvariants([t EXCEPT !.assertFailed = @ \/ t.readerState # "RS_FEEDING"])
                                  IN  IF acceptingInput(t1) THEN readNext([t1 EXCEPT !.readerState = "RS_INACTIVE"])
                                      ELSE IF mayAcceptInputLater(t1) THEN {readNextWhenChannelIdle(t1)}
                                      ELSE terminateReaderBecauseOfEOF(t1))
        ELSE setError([s1 EXCEPT !.events = @ \cup {<<"readFailed", readContext.errcode,
                                                      s.inFileMode.writerRequest.kind # "null",
                                                      BagCardinality(s.orphans)>>}],
                      readContext.errcode)

\* ------------------------------------------------------------ public methods
feedWithoutRefGuard(s, buffer) ==
    LET s0 == verifyInvariants(s)
        s1 == pushBuffer(s0, buffer)
        s2 == IF s1.mode = "IN_MEMORY_MODE" /\ passedThreshold(s1)
              THEN switchToInFileMode(s1)
              ELSE IF /\ s1.mode = "IN_FILE_MODE"
                      /\ s1.inFileMode.writerState = "WS_INACTIVE"
                      /\ s1.config.autoStartMover
              THEN moveNextBufferToFile(s1)
              ELSE s1
    IN  IF ended(s0) THEN {s0}
        ELSE IF s2.readerState = "RS_INACTIVE"
        THEN IF acceptingInput(s2) THEN readNextWithoutRefGuard(s2)
             ELSE {readNextWhenChannelIdle(s2)}
        ELSE {s2}

feed(s, buffer) == feedWithoutRefGuard(s, buffer)

feedError(s, e) == setError(s, e)

reinitialize(s) == verifyInvariants([s EXCEPT !.chState = "IDLE"])

\* ------------------------------------------------------------ eio completions
\* The outcomes of the request `ctx` once eio has run it against the spill file
\* `f`: the context with result/errcode (and for a read, the bytes) filled in,
\* the file afterwards, and what the outcome adds to the history.
EioOutcomes(ctx, f) ==
    LET Ok(r) == [ctx EXCEPT !.result = r, !.errcode = 0]
        Failed == {[ctx |-> [ctx EXCEPT !.result = -1, !.errcode = e], file |-> f, hist |-> {"ioerr"}]
                     : e \in IOErrCodes}
        data == SubSeq(ctx.buffer, ctx.written + 1, Len(ctx.buffer))
        got == ReadAt(f, ctx.offset, ctx.size)
    IN  CASE ctx.kind = "busy" -> {[ctx |-> Ok(0), file |-> f, hist |-> {}]}
          [] ctx.kind = "open" ->
                {[ctx |-> Ok(3), file |-> <<>>, hist |-> {}],
                 [ctx |-> [ctx EXCEPT !.result = -1, !.errcode = EEXIST], file |-> f, hist |-> {}]}
                \cup Failed
          [] ctx.kind = "write" ->
                {[ctx |-> Ok(k),
                  file |-> WriteAt(f, ctx.offset, SubSeq(data, 1, k)),
                  hist |-> IF k < Len(data) THEN {"partial"} ELSE {}] : k \in 1..Len(data)}
                \cup Failed
          [] ctx.kind = "read" ->
                {[ctx |-> [Ok(Len(got)) EXCEPT !.buffer = got], file |-> f, hist |-> {}]}
                \cup Failed
          [] OTHER -> {}

\* FileBufferedChannel's handler for a finished request, on the event loop thread.
Handle(s, ctx) ==
    CASE ctx.kind = "busy" -> bufferFileDoneDelaying(s, ctx)
      [] ctx.kind = "open" -> bufferFileCreated(s, ctx)
      [] ctx.kind = "write" -> bufferWrittenToFile(s, ctx)
      [] ctx.kind = "read" -> nextChunkDoneReading(s, ctx)

\* _bufferFileCreated, _bufferFileDoneDelaying, _bufferWrittenToFile,
\* _nextChunkDoneReading: eio's completion callback of a request that was not
\* cancelled.  On the event loop thread it runs the handler at once, on another
\* thread it hands the context to runLater.
EioFinished(s, o, onEventLoopThread) ==
    LET s1 == [s EXCEPT !.file = o.file, !.hist = @ \cup o.hist]
    IN  IF onEventLoopThread
        THEN Handle(s1, o.ctx)
        ELSE {IF o.ctx.kind = "read"
              THEN [s1 EXCEPT !.inFileMode.readRequest = [o.ctx EXCEPT !.stage = "loop"]]
              ELSE [s1 EXCEPT !.inFileMode.writerRequest = [o.ctx EXCEPT !.stage = "loop"]]}

\* What becomes of a cancelled request `ctx`: _bufferFileCreated,
\* _bufferWrittenToFile, _nextChunkDoneReading (stage "eio") and their
\* _onEventLoopThread continuations (stage "loop") ask isCanceled() first, and
\* then free the context (a created file is unlinked and closed) and return.
CompletionOfCanceled(s, ctx) ==
    LET s1 == [s EXCEPT !.orphans = @ (-) SetToBag({ctx}),
                        !.events = @ \cup {<<"completionOfCanceled", ctx.kind>>}]
    IN  IF isCanceled(ctx) THEN {s1}
        ELSE Handle(s1, [IOContext(ctx.kind) EXCEPT !.result = 0, !.errcode = 0])

\* The outcomes in which the request did not fail with an I/O error.
WithoutIOError(outcomes) == {o \in outcomes : "ioerr" \notin o.hist}

\* ------------------------------------------------------------ the state machine
Configs ==
    [threshold : 0..MaxThreshold, autoTruncateFile : BOOLEAN,
     autoStartMover : BOOLEAN, delayInFileModeSwitching : {0, 1}]

Init ==
    /\ config \in Configs
    /\ mode = "IN_MEMORY_MODE"
    /\ readerState = "RS_INACTIVE"
    /\ nbuffers = 0
    /\ bytesBuffered = 0
    /\ errcode = 0
    /\ queue = <<>>
    /\ inFileMode = NoInFileMode
    /\ chState = "IDLE"
    /\ generation = 0
    /\ file = <<>>
    /\ orphans = EmptyBag
    /\ crashed = FALSE
    /\ assertFailed = FALSE
    /\ log = <<>>
    /\ nfed = 0
    /\ genStart = 0
    /\ eosFed = FALSE
    /\ hist = {}
    /\ consumer \in {"sync", "any"}
    /\ events = {}

Running == ~crashed /\ chState # "UNINITIALIZED"

\* feed(buffer) with a buffer of n fresh bytes; n = 0 is the EOS.
Feed ==
    \E n \in 0..MaxBufSize :
        /\ Running
        /\ nfed + n <= MaxBytes
        /\ LET buffer == [i \in 1..n |-> nfed + i]
               accepted == ~ended(Self)
               s == [Self EXCEPT !.nfed = IF accepted THEN @ + n ELSE @,
                                 !.eosFed = @ \/ (accepted /\ n = 0)]
           IN  \E t \in feed(s, buffer) : Becomes(t)

FeedError ==
    \E e \in ErrCodes :
        /\ Running
        /\ \E t \in feedError(Self, e) : Becomes(t)

\* The consumer acknowledges an outstanding hand-off: Channel::consumed(size, end).
ConsumedWith(end) ==
    /\ Running
    /\ chState = "CALLING"
    /\ LET s == [Self EXCEPT !.chState = IF end THEN "EOF_REACHED" ELSE "IDLE"]
       IN  \E t \in onChannelConsumed(s) : Becomes(t)

Consumed == \E end \in BOOLEAN : ConsumedWith(end)

\* eio finishes the writer's (the reader's) outstanding request with outcome o.
WriterRequestFinishedWith(o) ==
    \E onEventLoopThread \in BOOLEAN :
        /\ Running
        /\ inFileMode.writerRequest.stage = "eio"
        /\ \E t \in EioFinished(Self, o, onEventLoopThread) : Becomes(t)

ReadRequestFinishedWith(o) ==
    \E onEventLoopThread \in BOOLEAN :
        /\ Running
        /\ inFileMode.readRequest.stage = "eio"
        /\ \E t \in EioFinished(Self, o, onEventLoopThread) : Becomes(t)

WriterRequestFinished ==
    \E o \in EioOutcomes(inFileMode.writerRequest, file) : WriterRequestFinishedWith(o)

ReadRequestFinished ==
    \E o \in EioOutcomes(inFileMode.readRequest, file) : ReadRequestFinishedWith(o)

\* The continuation queued with runLater runs on the event loop thread.
WriterRequestOnEventLoop ==
    /\ Running
    /\ inFileMode.writerRequest.stage = "loop"
    /\ \E t \in Handle(Self, inFileMode.writerRequest) : Becomes(t)

ReadRequestOnEventLoop ==
    /\ Running
    /\ inFileMode.readRequest.stage = "loop"
    /\ \E t \in Handle(Self, inFileMode.readRequest) : Becomes(t)

\* eio finishes a request the channel cancelled and let go of (its completion
\* callback runs), or the event loop runs the continuation queued for it.
CanceledRequestFinished ==
    \E ctx \in BagToSet(orphans) :
        /\ ~crashed
        /\ \E t \in CompletionOfCanceled(Self, ctx) : Becomes(t)

Deinitialize ==
    /\ Running
    /\ generation < MaxGeneration
    /\ \E t \in CallDeinitialize(Self, "user") : Becomes(t)

Reinitialize ==
    /\ ~crashed
    /\ chState = "UNINITIALIZED"
    /\ Becomes(reinitialize(Self))

Next ==
    \/ Feed
    \/ FeedError
    \/ Consumed
    \/ WriterRequestFinished
    \/ ReadRequestFinished
    \/ WriterRequestOnEventLoop
    \/ ReadRequestOnEventLoop
    \/ CanceledRequestFinished
    \/ Deinitialize
    \/ Reinitialize

Spec == Init /\ [][Next]_vars

\* ------------------------------------------------------------ a run without failures
\* One generation in which no request fails with an I/O error, feedError() and
\* deinitialize() are not called, and the consumer acknowledges every hand-off
\* and never says it wants no more.  eio runs every request it was given, the
\* event loop runs every continuation queued with runLater, and the consumer
\* acknowledges: each of these steps is taken if it stays possible.
InitLive ==
    /\ config \in Configs
    /\ mode = "IN_MEMORY_MODE"
    /\ readerState = "RS_INACTIVE"
    /\ nbuffers = 0
    /\ bytesBuffered = 0
    /\ errcode = 0
    /\ queue = <<>>
    /\ inFileMode = NoInFileMode
    /\ chState = "IDLE"
    /\ generation = 0
    /\ file = <<>>
    /\ orphans = EmptyBag
    /\ crashed = FALSE
    /\ assertFailed = FALSE
    /\ log = <<>>
    /\ nfed = 0
    /\ genStart = 0
    /\ eosFed = FALSE
    /\ hist = {}
    /\ consumer = "patient"
    /\ events = {}

ConsumedMore == ConsumedWith(FALSE)

WriterRequestDone ==
    \E o \in WithoutIOError(EioOutcomes(inFileMode.writerRequest, file)) : WriterRequestFinishedWith(o)

ReadRequestDone ==
    \E o \in WithoutIOError(EioOutcomes(inFileMode.readRequest, file)) : ReadRequestFinishedWith(o)

NextLive ==
    \/ Feed
    \/ ConsumedMore
    \/ WriterRequestDone
    \/ ReadRequestDone
    \/ WriterRequestOnEventLoop
    \/ ReadRequestOnEventLoop
    \/ CanceledRequestFinished

SpecLive ==
    /\ InitLive
    /\ [][NextLive]_vars
    /\ WF_vars(ConsumedMore)
    /\ WF_vars(WriterRequestDone)
    /\ WF_vars(ReadRequestDone)
    /\ WF_vars(WriterRequestOnEventLoop)
    /\ WF_vars(ReadRequestOnEventLoop)
    /\ WF_vars(CanceledRequestFinished)

\* ------------------------------------------------------------ a user that feeds from a callback
\* The same channel with a user whose buffersFlushedCallback may call feed()
\* and whose data_callback may defer its acknowledgement or want no more.
InitReentrant ==
    /\ config \in Configs
    /\ mode = "IN_MEMORY_MODE"
    /\ readerState = "RS_INACTIVE"
    /\ nbuffers = 0
    /\ bytesBuffered = 0
    /\ errcode = 0
    /\ queue = <<>>
    /\ inFileMode = NoInFileMode
    /\ chState = "IDLE"
    /\ generation = 0
    /\ file = <<>>
    /\ orphans = EmptyBag
    /\ crashed = FALSE
    /\ assertFailed = FALSE
    /\ log = <<>>
    /\ nfed = 0
    /\ genStart = 0
    /\ eosFed = FALSE
    /\ hist = {}
    /\ consumer = "reentrant"
    /\ events = {}

\* One generation: feedError() and deinitialize() are not called.
NextReentrant ==
    \/ Feed
    \/ Consumed
    \/ WriterRequestFinished
    \/ ReadRequestFinished
    \/ WriterRequestOnEventLoop
    \/ ReadRequestOnEventLoop
    \/ CanceledRequestFinished

SpecReentrant == InitReentrant /\ [][NextReentrant]_vars

\* ------------------------------------------------------------ types
TypeOK ==
    /\ mode \in {"IN_MEMORY_MODE", "IN_FILE_MODE", "ERROR", "ERROR_WAITING"}
    /\ readerState \in {"RS_INACTIVE", "RS_FEEDING", "RS_FEEDING_EOF",
                        "RS_WAITING_FOR_CHANNEL_IDLE", "RS_READING_FROM_FILE", "RS_TERMINATED"}
    /\ inFileMode.writerState \in {"WS_INACTIVE", "WS_CREATING_FILE", "WS_MOVING", "WS_TERMINATED"}
    /\ nbuffers = Len(queue)

\* ------------------------------------------------------------ what the consumer saw
Range(f) == {f[i] : i \in DOMAIN f}

\* The byte stream feed() accepted in this generation.
FedStream == [i \in 1..(nfed - genStart) |-> genStart + i]

\* The data bytes, the terminal events and the errors data_callback received.
IsByte(x) == x > 0
IsTerminal(x) == x <= 0
IsErrorEvent(x) == x < 0
NotErrorEvent(x) == x >= 0
Delivered == SelectSeq(log, IsByte)
DeliveredErrors == SelectSeq(log, IsErrorEvent)

HasEvent(evs, name) == \E e \in evs : e[1] = name

\* ------------------------------------------------------------ C1
\* C1: with a consumer that always accepts synchronously, what data_callback
\* received (leaving aside an error event) is exactly the fed byte stream, in
\* feed order, followed by an EOS if and only if an EOS was fed; for every
\* threshold, autoTruncateFile and autoStartMover.
C1_OrderPreservation ==
    consumer = "sync" =>
        SelectSeq(log, NotErrorEvent) = FedStream \o (IF eosFed THEN <<0>> ELSE <<>>)

\* Three bytes and the EOS went through a channel that had switched to the file.
C1_Witness ==
    /\ consumer = "sync"
    /\ mode = "IN_FILE_MODE"
    /\ Len(log) >= 4
    /\ log[Len(log)] = 0
    /\ log = FedStream \o <<0>>

\* ------------------------------------------------------------ C2
\* C2: with any consumer (it may defer its acknowledgements and may end), as
\* long as every write completed in full, the bytes data_callback received are
\* a prefix of the fed byte stream: byte i of the delivery is byte i of the
\* feed, under every interleaving of feeds, consumed events and I/O completions.
C2_DeliveredIsPrefix ==
    "partial" \notin hist =>
        /\ Len(Delivered) <= Len(FedStream)
        /\ \A i \in 1..Len(Delivered) : Delivered[i] = FedStream[i]

\* The handler that just ran handed over bytes read back from the spill file,
\* after earlier bytes had been handed over.
C2_Witness ==
    /\ "partial" \notin hist
    /\ \E e \in events : e[1] = "feedFromFile" /\ e[2] > 0 /\ Len(Delivered) > e[2]
    /\ Len(Delivered) >= 3

\* ------------------------------------------------------------ C3
\* C3: in a run without I/O errors, feedError() or deinitialize(), in which
\* every request completes and the consumer acknowledges every hand-off and
\* never ends early, every byte accepted by feed() is eventually handed to
\* data_callback, and if an EOS was accepted the reader eventually is
\* RS_TERMINATED.
C3_Liveness ==
    /\ \A k \in 1..MaxBytes : (nfed >= k) ~> (k \in Range(log))
    /\ eosFed ~> (readerState = "RS_TERMINATED")

\* Nothing is in flight: no hand-off awaits its acknowledgement and no request
\* of the reader or the writer is outstanding, so nothing but a feed() can
\* happen next.
Quiescent ==
    /\ chState # "CALLING"
    /\ inFileMode.writerRequest.stage = "none"
    /\ inFileMode.readRequest.stage = "none"

\* C3, as what it demands of a run that comes to rest: when nothing is in
\* flight any more, every byte accepted by feed() has been handed to
\* data_callback, and if an EOS was accepted the reader is RS_TERMINATED.
C3_NothingLeftBehind ==
    Quiescent =>
        /\ Delivered = FedStream
        /\ eosFed => readerState = "RS_TERMINATED"

\* ------------------------------------------------------------ C4
\* C4: a feed() made while the last queued buffer is the EOS, or the mode is
\* ERROR or ERROR_WAITING, or the underlying channel has ended, changes nothing:
\* not the queue, the counters, the mode, the reader, the InFileMode record
\* (writer state, readOffset, written, outstanding requests), the spill file,
\* nor what data_callback has received.
EndedNow ==
    \/ nbuffers > 0 /\ queue[Len(queue)] = <<>>
    \/ mode \in {"ERROR", "ERROR_WAITING"}
    \/ chState = "EOF_REACHED"

C4_FeedWhenEndedIsNoOp ==
    [][(EndedNow /\ Feed) =>
          UNCHANGED <<queue, nbuffers, bytesBuffered, mode, readerState, inFileMode,
                      file, orphans, errcode, chState, log, nfed, eosFed>>]_vars

\* A feed() can be made while an EOS sits undelivered in the queue.
C4_Witness ==
    /\ Running
    /\ nfed < MaxBytes
    /\ nbuffers > 1
    /\ queue[Len(queue)] = <<>>
    /\ ~IsError(mode)
    /\ chState = "CALLING"

\* ------------------------------------------------------------ C5
\* C5: a feedError() made while the mode is ERROR or ERROR_WAITING, with any
\* error code, leaves the mode, the stored error code, the reader state and
\* the queue as they are and hands nothing to the underlying channel.
C5_SetErrorIdempotent ==
    [][(IsError(mode) /\ FeedError) =>
          UNCHANGED <<mode, errcode, readerState, queue, nbuffers, bytesBuffered,
                      inFileMode, chState, log>>]_vars

\* The channel holds error 5 and waits for the consumer; feedError(28) can be called.
C5_Witness ==
    /\ Running
    /\ mode = "ERROR_WAITING"
    /\ chState = "CALLING"
    /\ errcode = 5
    /\ 28 \in ErrCodes

\* ------------------------------------------------------------ C6
\* C6: in one generation the underlying channel's feedError receives the stored
\* error at most once; it receives it at once when the channel is idle as the
\* error is set (mode ERROR), otherwise when a consumed event finds the channel
\* idle (no handler leaves an idle channel with the error still waiting), and
\* not at all once the channel has ended.
C6_ErrorState ==
    /\ Len(DeliveredErrors) <= 1
    /\ Len(DeliveredErrors) = 1 =>
          /\ IsError(mode)
          /\ DeliveredErrors[1] = -errcode
          /\ chState = "EOF_REACHED"
    /\ mode = "ERROR" => Len(DeliveredErrors) = 1
    /\ (mode = "ERROR_WAITING" /\ Len(DeliveredErrors) = 0) => chState # "IDLE"

C6_ErrorFedAtMostOnce ==
    /\ []C6_ErrorState
    /\ [][(chState = "EOF_REACHED" /\ generation' = generation) =>
             SelectSeq(log', IsErrorEvent) = DeliveredErrors]_vars

\* The error had to wait for the consumer and was then handed over.
C6_Witness ==
    /\ mode = "ERROR_WAITING"
    /\ Len(DeliveredErrors) = 1
    /\ Len(Delivered) >= 1

AcceptedFeedInMemory ==
    /\ Feed
    /\ mode = "IN_MEMORY_MODE"
    /\ ~EndedNow

FeedSwitchesIffThresholdReached ==
    AcceptedFeedInMemory =>
        /\ HasEvent(events', "switchToInFileMode") <=>
              bytesBuffered + (nfed' - nfed) >= config.threshold
        /\ \A e \in events' : e[1] = "switchToInFileMode" =>
              e[2] = bytesBuffered + (nfed' - nfed) /\ e[3] = 1

OnlyFeedLeavesInMemory ==
    (mode = "IN_MEMORY_MODE" /\ mode' = "IN_FILE_MODE") =>
        /\ HasEvent(events', "switchToInFileMode")
        /\ bytesBuffered' >= config.threshold

\* C8 (as the code has it): a feed accepted in IN_MEMORY mode switches to
\* IN_FILE, allocating the InFileMode record and starting the file creation,
\* if and only if bytesBuffered right after the push is >= threshold; the mode
\* leaves IN_MEMORY for IN_FILE in no other way; and at every handler boundary
\* mode = IN_MEMORY implies bytesBuffered < threshold or bytesBuffered = 0 (the
\* latter is all that holds for threshold = 0).
C8_ThresholdSwitch ==
    /\ [](mode = "IN_MEMORY_MODE" => (bytesBuffered < config.threshold \/ bytesBuffered = 0))
    /\ [][FeedSwitchesIffThresholdReached /\ OnlyFeedLeavesInMemory]_vars

\* A feed that reached the threshold exactly switched, with data still queued.
C8_Witness ==
    /\ mode = "IN_FILE_MODE"
    /\ \E e \in events : e[1] = "switchToInFileMode" /\ e[2] = config.threshold /\ e[3] = 1
    /\ config.threshold >= 2
    /\ nbuffers >= 1

\* C8 as the specification states it: ... and at every handler boundary
\* mode = IN_MEMORY implies bytesBuffered < threshold.
C8_AsStated ==
    /\ [](mode = "IN_MEMORY_MODE" => bytesBuffered < config.threshold)
    /\ [][FeedSwitchesIffThresholdReached /\ OnlyFeedLeavesInMemory]_vars

\* ------------------------------------------------------------ C9
\* Every change of the mode from IN_FILE to IN_MEMORY within a generation is a
\* switchToInMemoryMode() of the handler that just ran.
SwitchBackIsRecorded ==
    (mode = "IN_FILE_MODE" /\ mode' = "IN_MEMORY_MODE" /\ generation' = generation) =>
        HasEvent(events', "switchToInMemoryMode")

\* C9 (as the code has it): within a generation the mode goes from IN_FILE back
\* to IN_MEMORY only through the reader's switchToInMemoryMode(), and at the
\* moment the reader decides to switch autoTruncateFile is true, written <= 0
\* and every queued byte has already been handed over (-written =
\* bytesBuffered); the queue itself need not be empty.
C9_SwitchBackOnlyWhenServed ==
    /\ [](\A e \in events : e[1] = "switchToInMemoryMode" =>
              /\ config.autoTruncateFile
              /\ e[2] <= 0
              /\ -e[2] = e[4])
    /\ [][SwitchBackIsRecorded]_vars

\* The reader switched back while two buffers it had served were still queued.
C9_Witness ==
    /\ mode = "IN_MEMORY_MODE"
    /\ \E e \in events : e[1] = "switchToInMemoryMode" /\ e[3] = 2 /\ e[2] < 0

\* C9 as the specification states it: ... and the buffer queue is empty
\* (nbuffers = 0) at the moment the reader decides to switch.
C9_AsStated ==
    /\ [](\A e \in events : e[1] = "switchToInMemoryMode" =>
              /\ config.autoTruncateFile
              /\ e[2] <= 0
              /\ e[3] = 0)
    /\ [][SwitchBackIsRecorded]_vars

\* ------------------------------------------------------------ C10
\* The stream of this generation ended with an EOS and data_callback has
\* received all of it, the EOS last, and no error.
CompletelyDelivered ==
    /\ eosFed
    /\ log = FedStream \o <<0>>

\* C10 (as the code has it): with autoTruncateFile = true, handing over the EOS
\* does not switch the mode back.  A handler that finds the channel in IN_FILE
\* mode and hands over the EOS, or runs after the EOS was handed over, never
\* leaves the mode IN_MEMORY: the final mode of a stream whose EOS is reached in
\* IN_FILE mode is IN_FILE, until deinitialize().
C10_EOSKeepsInFileMode ==
    [][(/\ config.autoTruncateFile
        /\ mode = "IN_FILE_MODE"
        /\ generation' = generation
        /\ 0 \in Range(log')) => mode' # "IN_MEMORY_MODE"]_vars

\* A stream that crossed the threshold was delivered completely, data then EOS,
\* and the mode is IN_FILE.
C10_Witness ==
    /\ config.autoTruncateFile
    /\ config.threshold >= 2
    /\ CompletelyDelivered
    /\ Len(log) >= 3
    /\ mode = "IN_FILE_MODE"
    /\ readerState = "RS_TERMINATED"

\* C10 as the specification states it: with autoTruncateFile = true, once the
\* stream has been completely delivered, data followed by EOS, the mode is
\* IN_MEMORY.  (A stream that never crossed the threshold is in IN_MEMORY mode
\* all along, so a state violating this is one of a stream that crossed it.)
C10_AsStated ==
    (/\ config.autoTruncateFile
     /\ CompletelyDelivered
     /\ readerState = "RS_TERMINATED"
     /\ ~IsError(mode)) => mode = "IN_MEMORY_MODE"

\* ------------------------------------------------------------ C11
\* C11: buffers_flushed_callback is invoked every time the queue goes from
\* non-empty to empty in normal operation.  popBuffer() calls it whenever it
\* removes the last buffer, for the reader and for the writer alike; what is
\* left to hold is the third way the queue is emptied: a handler in which the
\* reader's switch back to in-memory mode cleared a queue that still held
\* buffers has invoked the callback.
C11_AsStated ==
    \A e \in events :
        (e[1] = "switchToInMemoryMode" /\ e[3] > 0) => HasEvent(events, "buffersFlushedCallback")

\* ------------------------------------------------------------ C12
\* C12: every invocation of data_flushed_callback finds the reader RS_INACTIVE
\* or RS_TERMINATED; and when it finds it RS_INACTIVE nothing that was fed is
\* undelivered: the mode is IN_MEMORY and the queue is empty, or the mode is
\* IN_FILE, written <= 0 and the queued buffers are exactly those already
\* handed over (-written = bytesBuffered); every accepted byte of the
\* generation has reached data_callback.
C12_DataFlushedWhenDrained ==
    \A e \in events : e[1] = "dataFlushedCallback" =>
        /\ e[2] \in {"RS_INACTIVE", "RS_TERMINATED"}
        /\ e[2] = "RS_INACTIVE" =>
              /\ e[3] \in {"IN_MEMORY_MODE", "IN_FILE_MODE"}
              /\ e[3] = "IN_MEMORY_MODE" => e[4] = 0
              /\ e[3] = "IN_FILE_MODE" => (e[6] <= 0 /\ -e[6] = e[5])
              /\ e[7] = 0

\* The callback was invoked in IN_FILE mode, reader RS_INACTIVE, while the
\* queue still held a buffer that had been served from memory.
C12_Witness ==
    \E e \in events :
        /\ e[1] = "dataFlushedCallback"
        /\ e[2] = "RS_INACTIVE"
        /\ e[3] = "IN_FILE_MODE"
        /\ e[4] >= 1
        /\ e[6] < 0

\* ------------------------------------------------------------ C13
\* The state deinitialize() leaves.
Deinitialized ==
    /\ mode = "IN_MEMORY_MODE"
    /\ readerState = "RS_INACTIVE"
    /\ errcode = 0
    /\ nbuffers = 0
    /\ bytesBuffered = 0
    /\ queue = <<>>
    /\ inFileMode = NoInFileMode

\* C13: deinitialize(), in whatever state it is called (IN_MEMORY, IN_FILE with
\* a file creation, a write and/or a read outstanding, ERROR, ERROR_WAITING),
\* runs to its end and leaves mode IN_MEMORY, reader RS_INACTIVE, errcode 0, an
\* empty queue with both counters 0 and no InFileMode record; and every call
\* of it, from outside or from a callback, cancels every request that was
\* registered with the channel.
C13_DeinitializeResets ==
    /\ [](\A e \in events : e[1] = "deinitialize" =>
              /\ e[4] = e[3]
              /\ e[2] = "user" => Deinitialized)
    /\ [][Deinitialize => (~crashed' /\ \E e \in events' : e[1] = "deinitialize" /\ e[2] = "user")]_vars

\* deinitialize() was called while a read and a write were outstanding.
C13_Witness ==
    /\ Deinitialized
    /\ \E e \in events : e[1] = "deinitialize" /\ e[2] = "user" /\ e[3] = 2 /\ e[4] = 2

\* ------------------------------------------------------------ C14
\* C14: the completion of a request that was cancelled (by deinitialize(),
\* setError() or the switch back to in-memory mode), be it eio's callback or
\* the continuation that was already queued for the event loop when the
\* cancel came, changes no field of the channel: it frees its context and
\* nothing else, whatever the channel has become in the meantime.
C14_CancellationSafety ==
    [][CanceledRequestFinished =>
          UNCHANGED <<config, mode, readerState, nbuffers, bytesBuffered, errcode, queue,
                      inFileMode, chState, generation, file, crashed, assertFailed, log>>]_vars

\* A cancelled write completed while the channel, back in in-file mode in the
\* same generation, had a new request of the writer outstanding.
C14_Witness ==
    /\ \E e \in events : e[1] = "completionOfCanceled" /\ e[2] = "write"
    /\ generation = 0
    /\ mode = "IN_FILE_MODE"
    /\ inFileMode.writerRequest.kind # "null"

\* A request was cancelled after its callback had run on a worker thread and
\* queued its continuation.
CanceledWithContinuationQueued ==
    \E e \in events : e[1] = "cancel" /\ e[3] = "loop"

\* ------------------------------------------------------------ C15
\* C15: when a callback (data_callback during the hand-off of a buffer served
\* from memory or from the file, or of the EOS or an error; or
\* buffers_flushed_callback during a pop that empties the queue; or
\* data_flushed_callback) calls deinitialize(), the code it interrupted does
\* nothing more once the callback has returned: when the handler returns the
\* channel is in the state deinitialize() left it, no request is registered,
\* nothing was handed to data_callback in the new generation, no further
\* callback, cancel or mode switch took place, and no assertion tripped.
C15_CallbackDeinitializes ==
    \A e \in events : (e[1] = "deinitialize" /\ e[2] # "user") =>
        /\ Deinitialized
        /\ chState = "UNINITIALIZED"
        /\ ~crashed
        /\ log = <<>>
        /\ nfed = genStart
        /\ Cardinality(events) = e[5] + 1
        /\ assertFailed = e[6]

\* data_callback called deinitialize() while it was handed bytes read back
\* from the spill file.
C15_Witness ==
    /\ \E e \in events : e[1] = "deinitialize" /\ e[2] = "dataCallback"
    /\ \E e \in events : e[1] = "feedFromFile" /\ e[2] > 0
    /\ Deinitialized

\* buffers_flushed_callback called deinitialize() during the writer's pop.
DeinitializedDuringWritersPop ==
    /\ \E e \in events : e[1] = "deinitialize" /\ e[2] = "buffersFlushedCallback"
    /\ HasEvent(events, "moveComplete")

\* data_flushed_callback called deinitialize() after the EOS was handed over.
DeinitializedAfterEOS ==
    /\ \E e \in events : e[1] = "deinitialize" /\ e[2] = "dataFlushedCallback"
    /\ \E e \in events : e[1] = "dataFlushedCallback" /\ e[2] = "RS_TERMINATED"

\* ------------------------------------------------------------ C16
\* C16: when a write of a buffer completes short, the remainder is written at
\* the buffer's offset advanced by the bytes of the buffer already written; and
\* when the move of a buffer completes, the file holds the buffer's bytes, in
\* order, from the offset at which its first write was issued.
C16_AsStated ==
    /\ \A e \in events : e[1] = "writeRemainder" => e[2] = e[3] + e[4]
    /\ \A e \in events : e[1] = "moveComplete" => e[3] = e[2]

\* ------------------------------------------------------------ C17
\* No callback called deinitialize() in the handler that just ran.
NoDeinitialize == ~HasEvent(events, "deinitialize")

\* C17: the handler of a failed read of the spill file runs to its end (its
\* cancelReader() dereferences no NULL request) and leaves mode ERROR or
\* ERROR_WAITING, errcode the errno of the read, the reader RS_TERMINATED, no
\* InFileMode record, and a writer request that was outstanding cancelled.
C17_AsStated ==
    \A e \in events : (e[1] = "readFailed" /\ NoDeinitialize) =>
        /\ ~crashed
        /\ mode \in {"ERROR", "ERROR_WAITING"}
        /\ errcode = e[2]
        /\ readerState = "RS_TERMINATED"
        /\ ~inFileMode.present
        /\ BagCardinality(orphans) = e[4] + (IF e[3] THEN 1 ELSE 0)

\* ------------------------------------------------------------ C18
\* C18: the handler of a failed creation of the spill file (any errno but
\* EEXIST) runs to its end (its cancelWriter() dereferences no NULL request)
\* and leaves mode ERROR or ERROR_WAITING, errcode the errno of the open, the
\* reader RS_TERMINATED and no InFileMode record.
C18_AsStated ==
    \A e \in events : (e[1] = "openFailed" /\ NoDeinitialize) =>
        /\ ~crashed
        /\ mode \in {"ERROR", "ERROR_WAITING"}
        /\ errcode = e[2]
        /\ readerState = "RS_TERMINATED"
        /\ ~inFileMode.present

\* ------------------------------------------------------------ C19
\* C19: the handler of a failed write to the spill file, whatever the reader
\* is doing, runs to its end and issues no further write; it cancels the read
\* request if one is outstanding and leaves errcode the errno of the write,
\* the reader RS_TERMINATED, no InFileMode record, and mode ERROR if the
\* underlying channel was idle, ERROR_WAITING if it was not.  (A data_callback
\* that answers the error with deinitialize() is the case of C15.)
C19_WriteFailure ==
    \A e \in events : (e[1] = "writeFailed" /\ NoDeinitialize) =>
        /\ ~crashed
        /\ errcode = e[2]
        /\ readerState = "RS_TERMINATED"
        /\ inFileMode = NoInFileMode
        /\ mode = (IF e[4] = "IDLE" THEN "ERROR" ELSE "ERROR_WAITING")
        /\ BagCardinality(orphans) = e[6] + (IF e[5] THEN 1 ELSE 0)
        /\ e[5] <=> (e[3] = "RS_READING_FROM_FILE")

\* A write failed while the reader was reading from the file; the channel was
\* idle, so the mode is ERROR and the consumer has the error.
C19_Witness ==
    /\ \E e \in events : e[1] = "writeFailed" /\ e[3] = "RS_READING_FROM_FILE" /\ e[4] = "IDLE" /\ e[5]
    /\ mode = "ERROR"
    /\ Len(DeliveredErrors) = 1

\* A write failed while the reader waited for the consumer.
WriteFailedWhileWaiting ==
    /\ \E e \in events : e[1] = "writeFailed" /\ e[3] = "RS_WAITING_FOR_CHANNEL_IDLE"
    /\ mode = "ERROR_WAITING"

\* A write failed while the reader was inactive.
WriteFailedWhileInactive ==
    \E e \in events : e[1] = "writeFailed" /\ e[3] = "RS_INACTIVE"

\* ------------------------------------------------------------ C20
\* C20: an error that had to wait for the consumer (mode ERROR_WAITING) is
\* fed when a consumed event finds the channel idle, and the mode then
\* switches to ERROR: once data_callback has received the error the mode is
\* ERROR, not ERROR_WAITING.
C20_AsStated ==
    Len(DeliveredErrors) = 1 => mode = "ERROR"

\* ------------------------------------------------------------ C21
\* The data bytes data_callback received are in feed order.
InFeedOrder(l) ==
    \A i, j \in DOMAIN l : (i < j /\ l[i] > 0 /\ l[j] > 0) => l[i] < l[j]

\* C21 as stated: when buffersFlushedCallback, called by the reader's pop in
\* in-memory mode, itself calls feed(), the buffer that was popped still
\* reaches data_callback before the buffer fed by the callback, and the
\* underlying channel is fed only while it is idle.
C21_AsStated ==
    [][((\E e \in events' : e[1] = "reentrantFeed" /\ e[2] = "IN_MEMORY_MODE") /\ InFeedOrder(log))
        => (/\ InFeedOrder(log')
            /\ \A e \in events' : e[1] = "channelFeed" => e[2] = "IDLE")]_vars

\* ------------------------------------------------------------ C22
\* C22: in IN_FILE mode, written < 0 means that the queue is not empty and that
\* -written is the size of a prefix of the queue: the buffers the reader has
\* served from memory and the writer has not popped yet.  Whenever the reader
\* searches the queue, -written is the size of a prefix, so the search ends on
\* a buffer boundary: it finds the buffer that starts there, or an EOS queued
\* before it, or nothing when every queued buffer has been served.
C22_WrittenIsPrefix ==
    /\ (mode = "IN_FILE_MODE" /\ inFileMode.written < 0) =>
            /\ queue # <<>>
            /\ nbuffers > 0
            /\ -inFileMode.written \in PrefixSizes(queue)
    /\ \A e \in events : e[1] = "findBufferForReadProcessing" => (e[3] /\ e[4])

\* The reader has served two queued buffers from memory, the writer has moved
\* none of them, and the reader searched the queue again.
C22_Witness ==
    /\ mode = "IN_FILE_MODE"
    /\ Len(queue) >= 2
    /\ -inFileMode.written = Len(queue[1]) + Len(queue[2])
    /\ Len(queue[1]) > 0 /\ Len(queue[2]) > 0
    /\ \E e \in events : e[1] = "findBufferForReadProcessing" /\ e[2] < 0

\* ------------------------------------------------------------ C23
\* C23: in IN_FILE mode, between handlers, (readOffset + written) plus the sizes
\* of the queued buffers is readOffset plus the number of fed bytes that
\* data_callback has not received: readOffset + written is where the file's
\* written part ends, counted from the switch to IN_FILE mode, and the bytes
\* before readOffset have been delivered.  That is, written plus the sizes of
\* the queued buffers is the number of fed bytes not yet delivered.
C23_UndeliveredBytes ==
    mode = "IN_FILE_MODE" =>
        /\ (inFileMode.readOffset + inFileMode.written) + SizeOfBuffers(queue)
                = inFileMode.readOffset + Undelivered(Self)
        /\ inFileMode.readOffset + inFileMode.written >= 0
        /\ inFileMode.readOffset <= Cardinality({i \in DOMAIN log : log[i] > 0})

\* Bytes have been delivered since the switch, some from the file and some
\* from memory, and both the file and the queue hold undelivered bytes.
C23_Witness ==
    /\ mode = "IN_FILE_MODE"
    /\ inFileMode.readOffset > 0
    /\ inFileMode.written > 0
    /\ SizeOfBuffers(queue) > 0
    /\ Undelivered(Self) = inFileMode.written + SizeOfBuffers(queue)
    /\ ~crashed

\* C23 as stated: (readOffset + written) plus the sizes of the queued buffers
\* is the number of fed bytes not yet delivered.
C23_AsStated ==
    mode = "IN_FILE_MODE" =>
        (inFileMode.readOffset + inFileMode.written) + SizeOfBuffers(queue) = Undelivered(Self)

\* ------------------------------------------------------------ C24
\* The number of data bytes in what data_callback received.
NumDelivered(l) == Cardinality({i \in DOMAIN l : l[i] > 0})

\* The size of the buffer whose move to the file a handler completed (0 if none).
SizeMoved(evs) ==
    IF \E e \in evs : e[1] = "moveComplete"
    THEN Len((CHOOSE e \in evs : e[1] = "moveComplete")[2])
    ELSE 0

\* C24: in IN_FILE mode, between handlers, written + bytesBuffered is the
\* number of bytes fed in this generation minus the number handed to the
\* underlying channel; and every handler that begins and ends in IN_FILE mode
\* keeps the books this way: the bytes it accepted are added to bytesBuffered,
\* the buffer whose move it completed goes from bytesBuffered to written, and
\* the bytes it handed over (from the file or from memory) are taken from
\* written.
C24_Bookkeeping ==
    /\ [](mode = "IN_FILE_MODE" =>
            inFileMode.written + bytesBuffered = (nfed - genStart) - NumDelivered(log))
    /\ [][(mode = "IN_FILE_MODE" /\ mode' = "IN_FILE_MODE" /\ generation' = generation) =>
            /\ bytesBuffered' = bytesBuffered + (nfed' - nfed) - SizeMoved(events')
            /\ inFileMode'.written = inFileMode.written + SizeMoved(events')
                                        - (NumDelivered(log') - NumDelivered(log))]_vars

\* A move was completed after the reader had served the moved buffer from
\* memory and bytes had been delivered: written is still negative, and a
\* buffer is still queued.
C24_Witness ==
    /\ mode = "IN_FILE_MODE"
    /\ SizeMoved(events) > 0
    /\ NumDelivered(log) > 0
    /\ bytesBuffered > 0
    /\ inFileMode.written < 0
    /\ inFileMode.written + bytesBuffered = (nfed - genStart) - NumDelivered(log)

\* ------------------------------------------------------------ C25
\* What verifyInvariants() asserts, of the state between handlers.
InvariantsOfVerifyInvariants ==
    /\ IsError(mode) => (readerState = "RS_TERMINATED" /\ ~inFileMode.present)
    /\ readerState = "RS_WAITING_FOR_CHANNEL_IDLE" => ~IsError(mode)
    /\ readerState = "RS_READING_FROM_FILE" =>
            /\ mode = "IN_FILE_MODE"
            /\ inFileMode.readRequest.kind # "null"
            /\ inFileMode.written > 0
    /\ (errcode = 0) <=> (mode \in {"IN_MEMORY_MODE", "IN_FILE_MODE"})
    /\ inFileMode.present <=> (mode = "IN_FILE_MODE")

\* C25: every call of verifyInvariants() passes, and what it asserts holds
\* between handlers as long as the process lives.
C25_VerifyInvariantsPass ==
    /\ \A e \in events : e[1] = "verifyInvariants" => e[2]
    /\ ~crashed => InvariantsOfVerifyInvariants

\* verifyInvariants() ran in a handler that left the reader reading from the file.
C25_Witness ==
    /\ <<"verifyInvariants", TRUE>> \in events
    /\ readerState = "RS_READING_FROM_FILE"
    /\ mode = "IN_FILE_MODE"
    /\ ~crashed

\* ------------------------------------------------------------ C26
\* C26: in IN_FILE mode, between handlers, a read request is registered
\* exactly when the reader is RS_READING_FROM_FILE and a writer request exactly
\* when the writer is WS_CREATING_FILE or WS_MOVING.  No request pointer is
\* ever assigned while it still points at another request, and every request
\* the channel has let go of is cancelled: so at most one read and at most one
\* writer operation is outstanding and not cancelled.
C26_RequestsMirrorStates ==
    /\ (mode = "IN_FILE_MODE" /\ ~crashed) =>
            /\ (inFileMode.readRequest.kind # "null") <=> (readerState = "RS_READING_FROM_FILE")
            /\ (inFileMode.writerRequest.kind # "null")
                    <=> (inFileMode.writerState \in {"WS_CREATING_FILE", "WS_MOVING"})
            /\ inFileMode.readRequest.kind \in {"null", "read"}
            /\ inFileMode.writerRequest.kind \in {"null", "busy", "open", "write"}
    /\ mode # "IN_FILE_MODE" => OutstandingRequests(Self) = 0
    /\ ~HasEvent(events, "requestOverwritten")
    /\ \A ctx \in BagToSet(orphans) : ctx.canceled

\* A read and a write are outstanding together.
C26_Witness ==
    /\ mode = "IN_FILE_MODE"
    /\ ~crashed
    /\ readerState = "RS_READING_FROM_FILE"
    /\ inFileMode.readRequest.kind = "read"
    /\ inFileMode.writerState = "WS_MOVING"
    /\ inFileMode.writerRequest.kind = "write"

\* ------------------------------------------------------------ C27
\* The writer has found the EOS at the head of the queue and stopped.
WriterAtEOS ==
    /\ mode = "IN_FILE_MODE"
    /\ inFileMode.writerState = "WS_TERMINATED"

\* The writer part of C27: a handler in which the writer finds the EOS at the
\* head of the queue leaves it WS_TERMINATED (unless the generation ended in
\* the same handler); a terminated writer has no request and the EOS stays at
\* the head of the queue; and as long as the generation and IN_FILE mode
\* last, the writer stays terminated, the queue is not touched and nothing is
\* written.
C27_WriterStopsAtEOS ==
    /\ [](/\ (HasEvent(events, "writerFoundEOS") /\ ~HasEvent(events, "deinitialize"))
                => WriterAtEOS
          /\ WriterAtEOS => (/\ inFileMode.writerRequest.kind = "null"
                             /\ queue # <<>>
                             /\ Head(queue) = <<>>))
    /\ [][(WriterAtEOS /\ generation' = generation /\ mode' = "IN_FILE_MODE")
            => (/\ inFileMode'.writerState = "WS_TERMINATED"
                /\ inFileMode'.writerRequest.kind = "null"
                /\ queue' = queue
                /\ file' = file
                /\ ~HasEvent(events', "moveComplete")
                /\ ~HasEvent(events', "writeRemainder"))]_vars

\* The writer stopped at the EOS with bytes left in the file, and the reader
\* has since delivered them and then the EOS.
C27_Witness ==
    /\ WriterAtEOS
    /\ inFileMode.written = 0
    /\ inFileMode.readOffset >= 2
    /\ readerState = "RS_TERMINATED"
    /\ HasEvent(events, "feedFromFile")
    /\ log = FedStream \o <<0>>

\* C27 as stated: moreover, once the writer has stopped at the EOS, a consumer
\* that has received the EOS has received every fed byte before it, in feed
\* order, and no on-disk byte is left (written <= 0).
C27_AsStated ==
    (WriterAtEOS /\ log # <<>> /\ log[Len(log)] = 0) =>
        /\ log = FedStream \o <<0>>
        /\ inFileMode.written <= 0

\* What remains of C27's reader part when every write so far completed in full.
C27_ReaderDrainsFileThenEOS ==
    (WriterAtEOS /\ log # <<>> /\ log[Len(log)] = 0 /\ "partial" \notin hist) =>
        /\ log = FedStream \o <<0>>
        /\ inFileMode.written <= 0

\* ------------------------------------------------------------ C28
\* C28: the reader is RS_TERMINATED whenever the underlying channel has ended
\* (an EOS or an error was handed over, or the consumer wants no more) or the
\* channel holds an error; and RS_TERMINATED is absorbing within a generation:
\* a handler that finds the reader terminated and does not end the generation
\* leaves it terminated and hands no buffer to data_callback (all it may hand
\* over is the stored error that was waiting for the consumer).
C28_TerminatedIsAbsorbing ==
    /\ []((ChannelEnded(Self) \/ IsError(mode)) => readerState = "RS_TERMINATED")
    /\ [][(readerState = "RS_TERMINATED" /\ generation' = generation)
            => (/\ readerState' = "RS_TERMINATED"
                /\ \/ log' = log
                   \/ mode = "ERROR_WAITING" /\ log' = Append(log, -errcode))]_vars

\* With the reader terminated (the consumer wanted no more), the completion
\* of a write was handled and a buffer moved to the file.
C28_Witness ==
    /\ readerState = "RS_TERMINATED"
    /\ mode = "IN_FILE_MODE"
    /\ chState = "EOF_REACHED"
    /\ HasEvent(events, "moveComplete")
    /\ ~HasEvent(events, "channelFeed")
    /\ generation = 0

\* C28 as stated, of what happens inside a handler as well: the reader is never
\* taken out of RS_TERMINATED to hand over another buffer.
C28_AsStated ==
    ~HasEvent(events, "readerLeftTerminated")

\* ------------------------------------------------------------ C29
\* C29: the handler of a file creation that failed with EEXIST raises no
\* error and touches nothing but the writer's request: the channel stays in
\* IN_FILE mode with errcode 0, the queue, readOffset, written, the reader and
\* what the consumer received are as before, and the writer is in
\* WS_CREATING_FILE again with a freshly issued request, the same one the
\* switch to IN_FILE mode issues.  The state after the handler is the state
\* before the failed attempt, so this holds for every further EEXIST as well.
C29_RetryOnEEXIST ==
    [][HasEvent(events', "fileExists") =>
            /\ (\A e \in events' : e[1] = "fileExists" => e[2] = EEXIST)
            /\ ~crashed'
            /\ assertFailed' = assertFailed
            /\ mode = "IN_FILE_MODE" /\ mode' = "IN_FILE_MODE"
            /\ errcode' = 0
            /\ queue' = queue /\ nbuffers' = nbuffers /\ bytesBuffered' = bytesBuffered
            /\ inFileMode'.readOffset = inFileMode.readOffset
            /\ inFileMode'.written = inFileMode.written
            /\ inFileMode'.fd = -1
            /\ readerState' = readerState
            /\ chState' = chState /\ log' = log /\ generation' = generation
            /\ orphans' = orphans
            /\ inFileMode'.writerState = "WS_CREATING_FILE"
            /\ inFileMode'.writerRequest =
                    IOContext(IF config.delayInFileModeSwitching = 0 THEN "open" ELSE "busy")
            /\ ~HasEvent(events', "openFailed")
            /\ ~HasEvent(events', "cancel")]_vars

\* The creation failed with EEXIST while a buffer was queued and the reader
\* was waiting for the consumer; a new request is out.
C29_Witness ==
    /\ HasEvent(events, "fileExists")
    /\ mode = "IN_FILE_MODE"
    /\ errcode = 0
    /\ inFileMode.writerState = "WS_CREATING_FILE"
    /\ inFileMode.writerRequest.stage = "eio"
    /\ readerState = "RS_WAITING_FOR_CHANNEL_IDLE"
    /\ queue # <<>>

\* ------------------------------------------------------------ C30
\* C30 as stated, for the configurations with a positive threshold (with
\* threshold 0 no byte count is below the threshold): in IN_FILE mode, between
\* handlers, an inactive writer means that the threshold has not been passed,
\* and a writer creating the file means that it has.
C30_AsStated ==
    (mode = "IN_FILE_MODE" /\ ~crashed /\ config.threshold > 0) =>
        /\ inFileMode.writerState = "WS_INACTIVE" => ~passedThreshold(Self)
        /\ inFileMode.writerState = "WS_CREATING_FILE" => passedThreshold(Self)

\* What holds of the writer states: with autoStartMover an inactive writer
\* means an empty queue, and a writer creating the file means that the
\* threshold has been passed.
C30_InactiveWriterWithAutoStart ==
    (mode = "IN_FILE_MODE" /\ ~crashed) =>
        /\ (inFileMode.writerState = "WS_INACTIVE" /\ config.autoStartMover) =>
                (queue = <<>> /\ bytesBuffered = 0)
        /\ inFileMode.writerState = "WS_CREATING_FILE" => passedThreshold(Self)

\* Without autoStartMover the writer stays inactive while fed buffers pile up
\* past a positive threshold.
C30_InactiveWriterPastThreshold ==
    /\ mode = "IN_FILE_MODE"
    /\ ~crashed
    /\ ~config.autoStartMover
    /\ config.threshold > 0
    /\ inFileMode.writerState = "WS_INACTIVE"
    /\ inFileMode.fd # -1
    /\ bytesBuffered >= config.threshold

\* ------------------------------------------------------------ C31
\* C31: in IN_FILE mode only the writer removes buffers from the queue.  Every
\* write completion that bufferWrittenToFile handles (a cancelled one never
\* reaches it) finds the queue non-empty, its head not the EOS, and its head the
\* very buffer whose write was issued; and between two handler boundaries of one
\* generation in IN_FILE mode the head of the queue goes away only in a handler
\* in which the writer completed the move of a buffer, whatever was fed and
\* whatever the reader delivered from memory or from the file meanwhile.
C31_OnlyWriterPops ==
    /\ [](\A e \in events : e[1] = "bufferWrittenToFile" => (e[2] /\ e[3] /\ e[4]))
    /\ [][(/\ mode = "IN_FILE_MODE" /\ mode' = "IN_FILE_MODE"
           /\ generation' = generation
           /\ ~HasEvent(events', "switchToInMemoryMode")
           /\ queue # <<>>
           /\ (queue' = <<>> \/ Head(queue') # Head(queue)))
          => HasEvent(events', "moveComplete")]_vars

\* A write completion was handled after the reader had delivered, from memory,
\* the buffer being written, and while a later buffer or the EOS was queued
\* behind it.
C31_Witness ==
    /\ HasEvent(events, "bufferWrittenToFile")
    /\ HasEvent(events, "moveComplete")
    /\ mode = "IN_FILE_MODE"
    /\ ~crashed
    /\ queue # <<>>
    /\ inFileMode.written = 0
    /\ Len(log) > 0

====
